---- MODULE Spec2Model ----
(***************************************************************************)
(* Camera Controller: the capture state machine of captureFrames           *)
(* (camera_controller_gui.py), the simulated camera (dummy_image_source.py)*)
(* and the filename generator, as a state machine.                         *)
(*                                                                         *)
(* gui     the fields and widgets of the captureFrames object              *)
(* camera  the fields of the active DummyCamera object                     *)
(* files   the paths that exist as files on disk                           *)
(* now     the wall clock (time.time / time.strftime), in interval units   *)
(* obs     observations of the last handler, used to state the properties  *)
(* driver  the sessions the vendor driver libraries hold                   *)
(* workers the series whose uncompressed container a compression process  *)
(*         was handed and has not finished with                            *)
(*                                                                         *)
(* Every handler is an operator from a world record                        *)
(* [gui, camera, files, now, obs, exc] to a world record; exc is set when  *)
(* the handler's Python code raises, and the statements after the raise    *)
(* are skipped (Qt prints the traceback and the event loop goes on).       *)
(***************************************************************************)
EXTENDS Integers, Sequences, FiniteSets, TLC

VARIABLES gui, camera, files, now, obs, driver, workers

vars == <<gui, camera, files, now, obs, driver, workers>>

(***************************************************************************)
(* Bounds of the model.                                                    *)
(***************************************************************************)
\* largest frame count a user types into numOfFrames / numOfFrames2
MaxFrames == 2
\* rolling buffer size typed into the buffersize field (1000 in the program)
BufSize == 2
\* the simulated camera's frame_number is not followed beyond this value
MaxFrameNumber == 4
\* the counters of the filename are not followed beyond this value
MaxCount == 2
\* the wall clock is not followed beyond this value
MaxTime == 1
\* the disk is not followed beyond this number of files
MaxFiles == 2
\* largest frame count passed to the simulated camera on its own
CamMaxFrames == 5
\* the frame_number of the simulated camera on its own stays below this
CamMaxFrameNumber == 7
\* the clock reading at which the date changes
DayLength == 1
\* single saves followed in the worked example of the filename generator
MaxSaves == 4
\* uc480 cameras attached to the computer
ThorCams == 2
\* frames in one compressed block (100 in the program)
ChunkFrames == 2
\* largest series handed to the compression
MaxSeries == 5

(***************************************************************************)
(* Program constants.                                                      *)
(***************************************************************************)
\* np.Inf, the stop_frame of an unbounded capture
Inf == -1
\* lastimage / self.image before any frame was captured (None); a frame is a
\* positive number as long as its array holds the samples that were captured
NoFrame == 0
\* textbox_float(self.interval) * 60, in clock units
IntervalUnits == 1
\* len(root) beyond which the preview label wraps the line
WrapLen == 25
\* the array read from the background file the user chose
FileFrame == 99

DefaultRoot == "C:\\/Users/manoharanlab/data/YourName"
ResetRoot == "C:/Users/manoharanlab/data/YourName"
Danger == "DANGER: SET TO OVERWRITE DATA, CHANGE FILENAME"

(***************************************************************************)
(* Text boxes holding a number: the text is the sequence of its digits.    *)
(***************************************************************************)
DigitStr(d) ==
    CASE d = 0 -> "0" [] d = 1 -> "1" [] d = 2 -> "2" [] d = 3 -> "3"
      [] d = 4 -> "4" [] d = 5 -> "5" [] d = 6 -> "6" [] d = 7 -> "7"
      [] d = 8 -> "8" [] d = 9 -> "9"

RECURSIVE StrOfDigits(_)
StrOfDigits(ds) ==
    IF ds = << >> THEN "" ELSE DigitStr(Head(ds)) \o StrOfDigits(Tail(ds))

\* int(text)
RECURSIVE IntOfDigits(_)
IntOfDigits(ds) ==
    IF ds = << >> THEN 0
    ELSE 10 * IntOfDigits(SubSeq(ds, 1, Len(ds) - 1)) + ds[Len(ds)]

\* str(n)
RECURSIVE DigitsOfInt(_)
DigitsOfInt(n) ==
    IF n < 10 THEN <<n>> ELSE DigitsOfInt(n \div 10) \o <<n % 10>>

\* s.zfill(width)
RECURSIVE zfill(_, _)
zfill(ds, width) ==
    IF Len(ds) >= width THEN ds ELSE zfill(<<0>> \o ds, width)

textbox_int(box) == IntOfDigits(box.text)

increment_textbox(box) ==
    [box EXCEPT !.text = zfill(DigitsOfInt(IntOfDigits(box.text) + 1), Len(box.text))]

zero_textbox(box) ==
    [box EXCEPT !.text = zfill(<<0>>, Len(box.text))]

\* CheckboxGatedValue.text(): the value when the box is checked, else ""
GatedText(box, value) == IF box.checked THEN value ELSE ""

(***************************************************************************)
(* The vendor drivers: the one session of the EPIX library and the number  *)
(* of uc480 camera sessions that are open.                                 *)
(***************************************************************************)
NoSessions == [pixci |-> FALSE, uc480 |-> 0]

(***************************************************************************)
(* The simulated camera.                                                   *)
(***************************************************************************)
DummyCamera ==
    [kind |-> "Simulated", pixci_opened |-> TRUE,
     live |-> TRUE, lastimage |-> NoFrame, frame_number |-> 1,
     stop_frame |-> Inf, captured |-> 0, requested |-> Inf]

\* frame_number < stop_frame, stop_frame possibly np.Inf
BelowStop(fn, stop) == stop = Inf \/ fn < stop

\* a camera that still captures when frame_number has reached stop_frame
get_image_one_more(c) ==
    IF c.live /\ (c.stop_frame = Inf \/ c.frame_number <= c.stop_frame)
    THEN [c EXCEPT !.lastimage = c.captured + 1,
                   !.frame_number = c.frame_number + 1,
                   !.captured = c.captured + 1]
    ELSE c

get_image(c) ==
    IF c.live /\ BelowStop(c.frame_number, c.stop_frame)
    THEN [c EXCEPT !.lastimage = c.captured + 1,
                   !.frame_number = c.frame_number + 1,
                   !.captured = c.captured + 1]
    ELSE c

get_frame_number(c) == c.frame_number

start_continuous_capture(c, buffersize) ==
    [c EXCEPT !.frame_number = 1, !.live = TRUE, !.stop_frame = Inf,
              !.captured = 0, !.requested = Inf]

start_sequence_capture(c, n_frames) ==
    [c EXCEPT !.frame_number = 1, !.live = TRUE, !.stop_frame = n_frames + 1,
              !.captured = 0, !.requested = n_frames]

stop_live_capture(c) == [c EXCEPT !.live = FALSE]

finished_live_sequence(c) ==
    c.stop_frame # Inf /\ c.frame_number >= c.stop_frame

(***************************************************************************)
(* The filename generator.  t is the clock reading time.strftime sees.     *)
(***************************************************************************)
\* os.path.join(*parts) for non-empty relative components
RECURSIVE PathJoin(_)
PathJoin(parts) ==
    IF Len(parts) = 1 THEN parts[1]
    ELSE PathJoin(SubSeq(parts, 1, Len(parts) - 1)) \o "/" \o parts[Len(parts)]

NonEmpty(parts) == SelectSeq(parts, LAMBDA a : a # "")

\* time.strftime("%H_%M_%S_") at clock reading t
TimeStr(t) == "T" \o ToString(t) \o "_"

\* time.strftime("%Y-%m-%d") at clock reading t
DateStr(t) == IF t < DayLength THEN "2018-05-17" ELSE "2018-05-18"

\* the components joined without leaving out the empty ones
DirParts_keep_empty(g, linewrap_for_gui, t) ==
    LET root == IF linewrap_for_gui /\ Len(g.root_save_path) > WrapLen
                THEN g.root_save_path \o "\n" ELSE g.root_save_path
        dirextra == GatedText(g.include_incrementing_dir_num,
                              StrOfDigits(g.include_incrementing_dir_num.text))
                    \o GatedText(g.include_extra_dir_text, g.include_extra_dir_text.text)
    IN  <<root, GatedText(g.include_dated_subdir, DateStr(t)), dirextra>>

DirParts(g, linewrap_for_gui, t) ==
    LET root == IF linewrap_for_gui /\ Len(g.root_save_path) > WrapLen
                THEN g.root_save_path \o "\n" ELSE g.root_save_path
        dirextra == GatedText(g.include_incrementing_dir_num,
                              StrOfDigits(g.include_incrementing_dir_num.text))
                    \o GatedText(g.include_extra_dir_text, g.include_extra_dir_text.text)
    IN  NonEmpty(<<root, GatedText(g.include_dated_subdir, DateStr(t)), dirextra>>)

\* os.path.join() of no component raises TypeError
save_directory_raises(g) == DirParts(g, FALSE, 0) = << >>

save_directory(g, linewrap_for_gui, t) ==
    PathJoin(DirParts(g, linewrap_for_gui, t))

\* a name without the incrementing image number
base_filename_no_counter(g, linewrap_for_gui, t) ==
    LET name == GatedText(g.include_current_date, DateStr(t) \o "_")
                \o GatedText(g.include_current_time, TimeStr(t))
                \o GatedText(g.include_filename_text, g.include_filename_text.text)
    IN  save_directory(g, linewrap_for_gui, t) \o "/" \o name

\* a name that carries the time of day whether or not it is enabled
base_filename_always_time(g, linewrap_for_gui, t) ==
    LET name == GatedText(g.include_current_date, DateStr(t) \o "_")
                \o TimeStr(t)
                \o GatedText(g.include_filename_text, g.include_filename_text.text)
                \o GatedText(g.include_incrementing_image_num,
                             StrOfDigits(g.include_incrementing_image_num.text))
    IN  save_directory(g, linewrap_for_gui, t) \o "/" \o name

base_filename(g, linewrap_for_gui, t) ==
    LET name == GatedText(g.include_current_date, DateStr(t) \o "_")
                \o GatedText(g.include_current_time, TimeStr(t))
                \o GatedText(g.include_filename_text, g.include_filename_text.text)
                \o GatedText(g.include_incrementing_image_num,
                             StrOfDigits(g.include_incrementing_image_num.text))
    IN  save_directory(g, linewrap_for_gui, t) \o "/" \o name

filename(g, linewrap_for_gui, t) == base_filename(g, linewrap_for_gui, t)

(***************************************************************************)
(* Worlds: the state a handler works on.                                   *)
(***************************************************************************)
\* nothing observed yet; slow_saved, the number of frames the slow series has
\* saved since it was started, is the one observation kept between handlers
ObsNone ==
    [exc |-> FALSE, overwrote |-> FALSE, single |-> FALSE,
     slow_done |-> FALSE, fast_done |-> FALSE, dump_done |-> FALSE,
     nums |-> << >>, fast_nums |-> << >>, dump_nums |-> << >>,
     req |-> Inf, dump_captured |-> 0, previewed |-> FALSE, written |-> NoFrame,
     slow_saved |-> 0, stored |-> << >>, calls |-> << >>, err |-> "",
     opened |-> FALSE, images |-> << >>, removed |-> FALSE,
     clobbered |-> FALSE]

\* the world a handler starts in
World ==
    [gui |-> gui, camera |-> camera, files |-> files, now |-> now,
     driver |-> driver, workers |-> workers,
     obs |-> [ObsNone EXCEPT !.slow_saved = obs.slow_saved],
     exc |-> FALSE, fail |-> 0]

\* the world of a handler whose k-th write fails
Failing(k) == [World EXCEPT !.fail = k]

Raise(w) == [w EXCEPT !.exc = TRUE]

\* raise an exception of class e
RaiseErr(w, e) == [w EXCEPT !.exc = TRUE, !.obs.err = e]

\* a call into a vendor driver library
Call(w, name) == [w EXCEPT !.obs.calls = Append(w.obs.calls, name)]

\* a group that is not exclusive: the other button keeps its state
GroupSetChecked_nonexclusive(g, button, checked) ==
    IF button = "livebutton"
    THEN [g EXCEPT !.livebutton = checked]
    ELSE [g EXCEPT !.freeze = checked]

\* the exclusive QButtonGroup of livebutton and freeze: checking one button
\* unchecks the other, and the checked button of the group cannot be unchecked
GroupSetChecked(g, button, checked) ==
    IF ~checked THEN g
    ELSE IF button = "livebutton"
         THEN [g EXCEPT !.livebutton = TRUE, !.freeze = FALSE]
         ELSE [g EXCEPT !.freeze = TRUE, !.livebutton = FALSE]

GroupToggle(g, button) ==
    GroupSetChecked(g, button, IF button = "livebutton" THEN ~g.livebutton ELSE ~g.freeze)

(***************************************************************************)
(* Persistence.                                                            *)
(***************************************************************************)
\* PIL's Image.save and h5py.File(name, 'w') replace an existing file.
\* w.fail = k > 0: the k-th write from here raises (IOError); 0: none does.
WriteFile(w, path) ==
    IF w.exc THEN w
    ELSE IF w.fail = 1 THEN Raise(w)
    ELSE [w EXCEPT !.files = w.files \cup {path},
                   !.obs.overwrote = w.obs.overwrote \/ path \in w.files,
                   !.fail = IF w.fail > 0 THEN w.fail - 1 ELSE 0]

write_image(w, path, image) ==
    IF w.exc THEN w
    ELSE IF image = NoFrame THEN Raise(w)
    ELSE WriteFile([w EXCEPT !.obs.written = image], path)

\* the camera after get_image(i) for each i of imageNums
RECURSIVE ReadFrames(_, _)
ReadFrames(c, imageNums) ==
    IF imageNums = << >> THEN c ELSE ReadFrames(get_image(c), Tail(imageNums))

\* the data of the datasets store_image creates, one get_image(num) each
RECURSIVE StoredFrames(_, _)
StoredFrames(c, imageNums) ==
    IF imageNums = << >> THEN << >>
    ELSE <<get_image(c).lastimage>> \o StoredFrames(get_image(c), Tail(imageNums))

write_timeseries(w, fname, imageNums) ==
    IF w.exc THEN w
    ELSE IF imageNums = << >> THEN Raise(w)
    ELSE LET c1 == get_image(w.camera)
             w1 == write_image([w EXCEPT !.camera = c1], fname \o ".tif",
                               c1.lastimage)
             w2 == WriteFile(w1, fname \o ".uncompressed.h5")
         IN  IF w2.exc THEN w2
             ELSE \* the container is filled and closed, then the process starts
                  [w2 EXCEPT !.camera = ReadFrames(w2.camera, imageNums),
                             !.obs.nums = imageNums,
                             !.obs.stored = StoredFrames(w2.camera, imageNums),
                             !.obs.clobbered = fname \in w.workers,
                             !.workers = w.workers \cup {fname}]

(***************************************************************************)
(* The hardware backends.  r is the code the driver's open call returns    *)
(* when nothing is open yet: 0 for success.                                *)
(***************************************************************************)
\* epix_framegrabber.Camera() after __init__
EpixCamera ==
    [kind |-> "epix", pixci_opened |-> FALSE, bit_depth |-> "None",
     camera |-> "None"]

\* thorcam_fs.Camera() after __init__; handle is "None", "open" (of an open
\* session), "closed" (of a session that was exited) or "invalid" (the
\* c_int(0) of a failed is_InitCamera); sessions counts the driver sessions
\* opened through this object and not exited
ThorCamera ==
    [kind |-> "thorcam", handle |-> "None", bit_depth |-> "None",
     camera |-> "None", sessions |-> 0]

\* the bit depths of the choice box; the first one is selected when the box
\* has just been filled
BitDepths == {"8", "12"}
FirstBitDepth == "8"

\* codes pxd_PIXCIopen / is_InitCamera return
OpenResults == {0, -13, -1}

\* "if self.open:" tests the bound method, which is always true
epix_close(w) ==
    IF w.exc THEN w
    ELSE Call([w EXCEPT !.driver.pixci = FALSE], "pxd_PIXCIclose")

epix_open(w, bit_depth, camera_str, r) ==
    IF w.exc THEN w
    ELSE LET w1 == IF w.camera.pixci_opened THEN epix_close(w) ELSE w
             w2 == Call([w1 EXCEPT !.camera.bit_depth = bit_depth,
                              !.camera.camera = camera_str], "pxd_PIXCIopen")
             i == IF w2.driver.pixci THEN -23 ELSE r
         IN  IF i = 0
             THEN [w2 EXCEPT !.driver.pixci = TRUE, !.camera.pixci_opened = TRUE]
             ELSE RaiseErr(w2, "epix_framegrabber.CameraOpenError")

thorcam_close(w) ==
    IF w.exc \/ w.camera.handle = "None" THEN w
    ELSE LET w1 == Call(Call(w, "is_StopLiveVideo"), "is_ExitCamera")
         IN  IF w.camera.handle = "open"
             THEN [w1 EXCEPT !.driver.uc480 = w.driver.uc480 - 1,
                             !.camera.sessions = w.camera.sessions - 1,
                             !.camera.handle = "closed"]
             ELSE w1

thorcam_open(w, bit_depth, camera_str, r) ==
    IF w.exc THEN w
    ELSE LET w1 == Call([w EXCEPT !.camera.bit_depth = bit_depth,
                                  !.camera.camera = camera_str], "is_InitCamera")
         IN  IF r = 0 /\ w.driver.uc480 < ThorCams
             THEN [w1 EXCEPT !.driver.uc480 = w.driver.uc480 + 1,
                             !.camera.sessions = w.camera.sessions + 1,
                             !.camera.handle = "open"]
             ELSE RaiseErr([w1 EXCEPT !.camera.handle = "invalid"],
                           "thorcam_fs.CameraOpenError")

\* self.camera.close() / self.camera.open(...) on the active backend;
\* DummyCamera.open only stores its arguments and DummyCamera.close passes
camera_close(w) ==
    CASE w.camera.kind = "epix" -> epix_close(w)
      [] w.camera.kind = "thorcam" -> thorcam_close(w)
      [] OTHER -> w

camera_open(w, bit_depth, camera_str, r) ==
    CASE w.camera.kind = "epix" -> epix_open(w, bit_depth, camera_str, r)
      [] w.camera.kind = "thorcam" -> thorcam_open(w, bit_depth, camera_str, r)
      [] OTHER -> w

\* start_continuous_capture / stop_live_capture of a hardware backend
hardware_live(w) ==
    IF w.camera.kind = "epix"
    THEN Call(w, IF w.gui.livebutton THEN "pxd_goLiveSeq" ELSE "pxd_goUnLive")
    ELSE Call(w, IF w.gui.livebutton THEN "is_CaptureVideo" ELSE "is_StopLiveVideo")

(***************************************************************************)
(* Handlers of captureFrames.                                              *)
(***************************************************************************)
live(w) ==
    IF w.exc THEN w
    ELSE IF w.camera.kind # "Simulated" THEN hardware_live(w)
    ELSE IF w.gui.livebutton
    THEN [w EXCEPT !.camera = start_continuous_capture(w.camera, w.gui.buffersize)]
    ELSE [w EXCEPT !.camera = stop_live_capture(w.camera)]

next_directory(w) ==
    IF w.exc THEN w
    ELSE IF w.gui.include_incrementing_dir_num.checked
    THEN [w EXCEPT !.gui.include_incrementing_dir_num =
                       increment_textbox(w.gui.include_incrementing_dir_num),
                   !.gui.include_incrementing_image_num =
                       zero_textbox(w.gui.include_incrementing_image_num)]
    ELSE w

\* a save that advances neither counter
save_image_no_counter(w) ==
    IF w.exc THEN w
    ELSE LET w1 == [w EXCEPT !.gui.last_save_was_series = FALSE]
         IN  IF save_directory_raises(w1.gui) THEN Raise(w1)
             ELSE LET w2 == write_image(w1, filename(w1.gui, FALSE, w1.now) \o ".tif",
                                        w1.gui.image)
                  IN  IF w2.exc THEN w2
                      ELSE [w2 EXCEPT !.gui.save = FALSE, !.obs.single = TRUE]

\* a save whose directory branch leaves the image number as it is
save_image_keeps_image_num(w) ==
    IF w.exc THEN w
    ELSE LET w1 == [w EXCEPT !.gui.last_save_was_series = FALSE]
         IN  IF save_directory_raises(w1.gui) THEN Raise(w1)
             ELSE LET w2 == write_image(w1, filename(w1.gui, FALSE, w1.now) \o ".tif",
                                        w1.gui.image)
                      w3 == [w2 EXCEPT !.gui.save = FALSE, !.obs.single = TRUE]
                  IN  IF w2.exc THEN w2
                      ELSE IF w3.gui.include_incrementing_image_num.checked
                      THEN [w3 EXCEPT !.gui.include_incrementing_image_num =
                                increment_textbox(w3.gui.include_incrementing_image_num)]
                      ELSE IF w3.gui.include_incrementing_dir_num.checked
                      THEN [w3 EXCEPT !.gui.include_incrementing_dir_num =
                                increment_textbox(w3.gui.include_incrementing_dir_num)]
                      ELSE w3

save_image(w) ==
    IF w.exc THEN w
    ELSE LET w1 == [w EXCEPT !.gui.last_save_was_series = FALSE]
         IN  IF save_directory_raises(w1.gui) THEN Raise(w1)
             ELSE LET w2 == write_image(w1, filename(w1.gui, FALSE, w1.now) \o ".tif",
                                        w1.gui.image)
                      w3 == [w2 EXCEPT !.gui.save = FALSE, !.obs.single = TRUE]
                  IN  IF w2.exc THEN w2
                      ELSE IF w3.gui.include_incrementing_image_num.checked
                      THEN [w3 EXCEPT !.gui.include_incrementing_image_num =
                                increment_textbox(w3.gui.include_incrementing_image_num)]
                      ELSE IF w3.gui.include_incrementing_dir_num.checked
                      THEN [w3 EXCEPT !.gui.include_incrementing_dir_num =
                                increment_textbox(w3.gui.include_incrementing_dir_num),
                                      !.gui.include_incrementing_image_num =
                                zero_textbox(w3.gui.include_incrementing_image_num)]
                      ELSE w3

\* a series start that moves to the next directory whatever the last save was
collectTimeSeries_always_next(w) ==
    LET anyseries == w.gui.timeseries \/ w.gui.timeseries_slow \/ w.gui.save_buffer
        w1 == IF ~anyseries THEN w
              ELSE [w EXCEPT !.gui.include_incrementing_image_num.checked = TRUE]
        w2 == IF anyseries THEN next_directory(w1) ELSE w1
        w3 == IF ~anyseries THEN w2
              ELSE [w2 EXCEPT !.gui.include_incrementing_image_num =
                                  zero_textbox(w2.gui.include_incrementing_image_num),
                              !.gui.last_save_was_series = TRUE]
        w4 == IF w3.gui.timeseries
              THEN [w3 EXCEPT !.camera =
                        start_sequence_capture(w3.camera, w3.gui.numOfFrames)]
              ELSE w3
    IN  IF w4.gui.timeseries_slow
        THEN [w4 EXCEPT !.gui.slowseries_start = w4.now, !.obs.slow_saved = 0]
        ELSE w4

\* a series start that leaves the image number's checkbox as it is
collectTimeSeries_no_force(w) ==
    LET anyseries == w.gui.timeseries \/ w.gui.timeseries_slow \/ w.gui.save_buffer
        w2 == IF anyseries /\ ~w.gui.last_save_was_series
              THEN next_directory(w) ELSE w
        w3 == IF ~anyseries THEN w2
              ELSE [w2 EXCEPT !.gui.include_incrementing_image_num =
                                  zero_textbox(w2.gui.include_incrementing_image_num),
                              !.gui.last_save_was_series = TRUE]
        w4 == IF w3.gui.timeseries
              THEN [w3 EXCEPT !.camera =
                        start_sequence_capture(w3.camera, w3.gui.numOfFrames)]
              ELSE w3
    IN  IF w4.gui.timeseries_slow
        THEN [w4 EXCEPT !.gui.slowseries_start = w4.now, !.obs.slow_saved = 0]
        ELSE w4

collectTimeSeries(w) ==
    LET anyseries == w.gui.timeseries \/ w.gui.timeseries_slow \/ w.gui.save_buffer
        w1 == IF ~anyseries THEN w
              ELSE [w EXCEPT !.gui.include_incrementing_image_num.checked = TRUE]
        w2 == IF anyseries /\ ~w1.gui.last_save_was_series
              THEN next_directory(w1) ELSE w1
        w3 == IF ~anyseries THEN w2
              ELSE [w2 EXCEPT !.gui.include_incrementing_image_num =
                                  zero_textbox(w2.gui.include_incrementing_image_num),
                              !.gui.last_save_was_series = TRUE]
        w4 == IF w3.gui.timeseries
              THEN [w3 EXCEPT !.camera =
                        start_sequence_capture(w3.camera, w3.gui.numOfFrames)]
              ELSE w3
    IN  IF w4.gui.timeseries_slow
        THEN [w4 EXCEPT !.gui.slowseries_start = w4.now, !.obs.slow_saved = 0]
        ELSE w4

(***************************************************************************)
(* The periodic tick.                                                      *)
(***************************************************************************)
\* range(a, b) as a sequence
Range(a, b) == IF b > a THEN [i \in 1..(b - a) |-> a + i - 1] ELSE << >>

\* a slow series that moves to the next directory after every frame
SlowBranch_next_each_frame(w) ==
    IF w.exc \/ ~w.gui.timeseries_slow THEN w
    ELSE LET due == textbox_int(w.gui.include_incrementing_image_num) * IntervalUnits
                        <= w.now - w.gui.slowseries_start
             w0 == IF due THEN next_directory(save_image(w)) ELSE w
             w1 == IF due /\ ~w0.exc
                   THEN [w0 EXCEPT !.obs.slow_saved = w0.obs.slow_saved + 1]
                   ELSE w0
         IN  IF w1.exc THEN w1
             ELSE IF textbox_int(w1.gui.include_incrementing_image_num)
                         >= w1.gui.numOfFrames2
             THEN next_directory([w1 EXCEPT !.gui.timeseries_slow = FALSE,
                                            !.obs.slow_done = TRUE])
             ELSE w1

\* a slow series that saves a frame on every tick, due or not
SlowBranch_every_tick(w) ==
    IF w.exc \/ ~w.gui.timeseries_slow THEN w
    ELSE LET w0 == save_image(w)
             w1 == IF ~w0.exc
                   THEN [w0 EXCEPT !.obs.slow_saved = w0.obs.slow_saved + 1]
                   ELSE w0
         IN  IF w1.exc THEN w1
             ELSE IF textbox_int(w1.gui.include_incrementing_image_num)
                         >= w1.gui.numOfFrames2
             THEN next_directory([w1 EXCEPT !.gui.timeseries_slow = FALSE,
                                            !.obs.slow_done = TRUE])
             ELSE w1

\* the slow time series: one frame when it is due, the end of the series
SlowBranch(w) ==
    IF w.exc \/ ~w.gui.timeseries_slow THEN w
    ELSE LET due == textbox_int(w.gui.include_incrementing_image_num) * IntervalUnits
                        <= w.now - w.gui.slowseries_start
             w0 == IF due THEN save_image(w) ELSE w
             w1 == IF due /\ ~w0.exc
                   THEN [w0 EXCEPT !.obs.slow_saved = w0.obs.slow_saved + 1]
                   ELSE w0
         IN  IF w1.exc THEN w1
             ELSE IF textbox_int(w1.gui.include_incrementing_image_num)
                         >= w1.gui.numOfFrames2
             THEN next_directory([w1 EXCEPT !.gui.timeseries_slow = FALSE,
                                            !.obs.slow_done = TRUE])
             ELSE w1

\* the fast time series: written once the camera has finished the sequence
FastBranch(w) ==
    IF w.exc \/ ~w.gui.timeseries \/ ~finished_live_sequence(w.camera) THEN w
    ELSE LET w1 == [w EXCEPT !.gui = GroupToggle(w.gui, "freeze"),
                             !.obs.req = w.camera.requested]
             w2 == IF save_directory_raises(w1.gui) THEN Raise(w1)
                   ELSE write_timeseries(w1, filename(w1.gui, FALSE, w1.now),
                                         Range(1, 1 + w1.gui.numOfFrames))
             w3 == [w2 EXCEPT !.gui.include_incrementing_image_num =
                                  increment_textbox(w2.gui.include_incrementing_image_num),
                              !.obs.fast_done = TRUE,
                              !.obs.fast_nums = w2.obs.nums]
             w4 == next_directory(w3)
             w5 == [w4 EXCEPT !.gui.timeseries = FALSE]
         IN  IF w2.exc THEN w2
             ELSE live([w5 EXCEPT !.gui = GroupSetChecked(w5.gui, "livebutton", TRUE)])

\* the time machine: the rolling buffer written oldest frame first
BufferBranch(w) ==
    IF w.exc \/ ~w.gui.save_buffer THEN w
    ELSE LET w1 == live([w EXCEPT !.gui = GroupSetChecked(w.gui, "freeze", TRUE)])
             lastframe == get_frame_number(w1.camera)
             imagenums == Range(lastframe + 2, w1.gui.buffersize + 1)
                          \o Range(1, lastframe + 2)
             w2 == IF save_directory_raises(w1.gui) THEN Raise(w1)
                   ELSE write_timeseries([w1 EXCEPT !.obs.dump_captured =
                                                        w1.camera.captured],
                                         filename(w1.gui, FALSE, w1.now),
                                         imagenums)
             w3 == next_directory([w2 EXCEPT !.obs.dump_done = TRUE,
                                             !.obs.dump_nums = w2.obs.nums])
             w4 == [w3 EXCEPT !.gui.save_buffer = FALSE]
         IN  IF w2.exc THEN w2
             ELSE live([w4 EXCEPT !.gui = GroupSetChecked(w4.gui, "livebutton", TRUE)])

\* a tick that evaluates the slow series before it reads the new frame
timerEvent_save_before_read(w) ==
    LET w0 == SlowBranch(w)
        c1 == get_image(w0.camera)
        w1 == [w0 EXCEPT !.camera = c1, !.gui.image = c1.lastimage]
        w2 == IF w1.gui.image = NoFrame THEN Raise(w1) ELSE w1
    IN  BufferBranch(FastBranch(w2))

timerEvent(w) ==
    LET c1 == get_image(w.camera)
        w1 == [w EXCEPT !.camera = c1, !.gui.image = c1.lastimage]
        \* showImage raises on an image of None
        w2 == IF w1.gui.image = NoFrame THEN Raise(w1) ELSE w1
    IN  BufferBranch(FastBranch(SlowBranch(w2)))

(***************************************************************************)
(* The other handlers.                                                     *)
(***************************************************************************)
\* the parts of the gui the path is built from
FilenameState(g) ==
    <<g.root_save_path, g.include_dated_subdir, g.include_incrementing_dir_num,
      g.include_extra_dir_text, g.include_current_date, g.include_current_time,
      g.include_filename_text, g.include_incrementing_image_num>>

\* the preview label when the existence test is made on the line-wrapped text
update_filename_probe_wrapped(w) ==
    LET shown == filename(w.gui, TRUE, w.now)
        probe == filename(w.gui, TRUE, w.now) \o ".tif"
    IN  IF save_directory_raises(w.gui) THEN Raise(w)
        ELSE [w EXCEPT !.gui.path = IF probe \in w.files THEN Danger ELSE shown,
                       !.obs.previewed = TRUE]

\* the preview label of the next path
update_filename(w) ==
    LET shown == filename(w.gui, TRUE, w.now)
        probe == filename(w.gui, FALSE, w.now) \o ".tif"
    IN  IF save_directory_raises(w.gui) THEN Raise(w)
        ELSE [w EXCEPT !.gui.path = IF probe \in w.files THEN Danger ELSE shown,
                       !.obs.previewed = TRUE]

resetSavingOptions(w) ==
    [w EXCEPT !.gui.include_filename_text = [checked |-> TRUE, text |-> "image"],
              !.gui.include_current_date.checked = FALSE,
              !.gui.include_current_time.checked = FALSE,
              !.gui.include_incrementing_image_num =
                  [checked |-> TRUE, text |-> <<0, 0, 0, 0>>],
              !.gui.include_incrementing_dir_num =
                  [checked |-> TRUE, text |-> <<0, 0>>],
              !.gui.include_extra_dir_text.checked = FALSE,
              !.gui.root_save_path = ResetRoot]

select_directory(w, directory) ==
    LET waslive == w.gui.livebutton
        w1 == IF waslive
              THEN live([w EXCEPT !.gui = GroupSetChecked(w.gui, "freeze", TRUE)])
              ELSE w
        w2 == [w1 EXCEPT !.gui.root_save_path = directory]
    IN  IF waslive
        THEN live([w2 EXCEPT !.gui = GroupSetChecked(w2.gui, "livebutton", TRUE)])
        ELSE w2

\* the array of a frame after im[im == 0] = 1 has been applied to it in place
ZerosReplaced(image) == IF image > NoFrame THEN 0 - image ELSE image

\* im = self.image; im[im == 0] = 1: the array self.image refers to is changed
\* when it holds a zero, and camera.lastimage with it when it is the same array
BackgroundFromBuffer(w, haszero) ==
    IF w.gui.image = NoFrame THEN Raise(w)
    ELSE IF ~haszero THEN w
    ELSE [w EXCEPT !.gui.image = ZerosReplaced(w.gui.image),
                   !.camera.lastimage =
                       IF w.camera.lastimage = w.gui.image
                       THEN ZerosReplaced(w.gui.image) ELSE w.camera.lastimage]

\* a background that is stored as it is, zeros included
SetBackground_no_clamp(w, im, haszero) ==
    IF w.exc THEN w
    ELSE [w EXCEPT !.gui.background_image = im,
                   !.gui.background_zero = haszero,
                   !.gui.divide_background = TRUE]

\* im[im == 0] = 1; self.background_image = im: im is the array after the
\* replacement, which holds no zero
SetBackground(w, im, haszero) ==
    IF w.exc THEN w
    ELSE [w EXCEPT !.gui.background_image = IF haszero THEN ZerosReplaced(im) ELSE im,
                   !.gui.background_zero = FALSE,
                   !.gui.divide_background = TRUE]

\* from_file: the state of the get_bkgd_from_file checkbox; opened: the file
\* dialog returned a readable image (Image.open raises otherwise); haszero:
\* the image taken as the background holds a sample equal to 0
select_background(w, from_file, opened, haszero) ==
    LET waslive == w.gui.livebutton
        w1 == IF waslive
              THEN live([w EXCEPT !.gui = GroupSetChecked(w.gui, "freeze", TRUE)])
              ELSE w
    IN  IF ~w.gui.applybackground THEN [w EXCEPT !.gui.divide_background = FALSE]
        ELSE IF ~from_file
        THEN SetBackground(BackgroundFromBuffer(w, haszero), w.gui.image, haszero)
        ELSE IF ~opened THEN Raise(w1)
        ELSE SetBackground(
                 IF waslive
                 THEN live([w1 EXCEPT !.gui = GroupSetChecked(w1.gui, "livebutton", TRUE)])
                 ELSE w1,
                 FileFrame, haszero)

\* the object change_camera constructs for a name of the camera list
NewCamera(camera_str) ==
    CASE camera_str = "Simulated" -> DummyCamera
      [] camera_str \in {"PhotonFocus", "Basler"} -> EpixCamera
      [] camera_str = "ThorCam FS" -> ThorCamera

\* fmt: format files of the chosen frame grabber camera exist, so that
\* get_bit_and_roi_choices fills the two choice boxes; on an empty box
\* int('') raises
reopen_camera(w, fmt, r) ==
    IF w.exc THEN w
    ELSE IF w.gui.camera_choice \in {"PhotonFocus", "Basler"} /\ ~fmt
    THEN RaiseErr(w, "ValueError")
    ELSE LET w1 == camera_open(w, FirstBitDepth, w.gui.camera_choice, r)
         IN  IF w1.exc THEN w1
             ELSE live([w1 EXCEPT !.gui = GroupToggle(w1.gui, "livebutton")])

change_camera(w, camera_str, fmt, r) ==
    LET w1 == camera_close([w EXCEPT !.gui = GroupToggle(w.gui, "freeze")])
    IN  reopen_camera([w1 EXCEPT !.camera = NewCamera(camera_str)], fmt, r)

\* the format files and the open code met by each frame grabber camera
FrameGrabberCameras == {"PhotonFocus", "Basler"}
Environments == [FrameGrabberCameras -> [fmt : BOOLEAN, r : OpenResults]]

\* the camera selection loop of initUI, from index i on: the first camera of
\* the list that opens is kept; only epix_framegrabber.CameraOpenError is
\* caught
RECURSIVE camera_loop(_, _, _)
camera_loop(w, i, env) ==
    IF i > Len(w.gui.cameras) THEN w
    ELSE LET camera_str == w.gui.cameras[i]
             e == IF camera_str \in FrameGrabberCameras THEN env[camera_str]
                  ELSE [fmt |-> TRUE, r |-> 0]
             w1 == change_camera([w EXCEPT !.gui.camera_choice = camera_str],
                                 camera_str, e.fmt, e.r)
         IN  IF ~w1.exc THEN [w1 EXCEPT !.obs.opened = TRUE]
             ELSE IF w1.obs.err = "epix_framegrabber.CameraOpenError"
             THEN camera_loop([w1 EXCEPT !.exc = FALSE, !.obs.err = ""], i + 1, env)
             ELSE w1

\* the application is shut down: app.aboutToQuit
closing_sequence(w) == camera_close(w)

(***************************************************************************)
(* The state after construction.                                           *)
(***************************************************************************)
InitGui ==
    [livebutton |-> TRUE, freeze |-> FALSE, save |-> FALSE,
     applybackground |-> FALSE,
     background_image |-> NoFrame, background_zero |-> FALSE,
     divide_background |-> FALSE,
     cameras |-> <<"Simulated">>, camera_choice |-> "Simulated",
     phase |-> "running",
     timeseries |-> FALSE, timeseries_slow |-> FALSE, save_buffer |-> FALSE,
     numOfFrames |-> MaxFrames, numOfFrames2 |-> MaxFrames,
     buffersize |-> BufSize,
     include_filename_text |-> [checked |-> TRUE, text |-> "image"],
     include_current_date |-> [checked |-> FALSE],
     include_current_time |-> [checked |-> FALSE],
     include_incrementing_image_num |-> [checked |-> TRUE, text |-> <<0, 0, 0, 0>>],
     root_save_path |-> DefaultRoot,
     include_dated_subdir |-> [checked |-> TRUE],
     include_incrementing_dir_num |-> [checked |-> TRUE, text |-> <<0, 0>>],
     include_extra_dir_text |-> [checked |-> FALSE, text |-> ""],
     path |-> "",
     last_save_was_series |-> TRUE, slowseries_start |-> 0, image |-> NoFrame]

Init ==
    /\ gui = [InitGui EXCEPT !.path = filename(InitGui, TRUE, 0)]
    /\ camera = start_continuous_capture(DummyCamera, BufSize)
    /\ files = {}
    /\ now = 0
    /\ obs = ObsNone
    /\ driver = NoSessions
    /\ workers = {}

(***************************************************************************)
(* Actions: one per user event, the tick and the passing of time.          *)
(***************************************************************************)
Bounded(w) ==
    /\ textbox_int(w.gui.include_incrementing_image_num) <= MaxCount
    /\ textbox_int(w.gui.include_incrementing_dir_num) <= MaxCount
    /\ w.camera.kind = "Simulated" => w.camera.frame_number <= MaxFrameNumber
    /\ w.now <= MaxTime
    /\ Cardinality(w.files) <= MaxFiles

Apply(w) ==
    /\ gui' = w.gui
    /\ camera' = w.camera
    /\ files' = w.files
    /\ now' = w.now
    /\ obs' = [w.obs EXCEPT !.exc = w.exc]
    /\ driver' = w.driver
    /\ workers' = w.workers

Commit(w) == Bounded(w) /\ Apply(w)

ClickLive ==
    Commit(live([World EXCEPT !.gui = GroupSetChecked(gui, "livebutton", TRUE)]))

ClickFreeze ==
    Commit(live([World EXCEPT !.gui = GroupSetChecked(gui, "freeze", TRUE)]))

\* a click on the checkable Save button toggles it and calls save_image
SaveClicked(k) == save_image([Failing(k) EXCEPT !.gui.save = ~gui.save])

ClickSave == Commit(SaveClicked(0))

ClickSaveMayFail == \E k \in 0..1 : Commit(SaveClicked(k))

ClickIncrementDir == Commit(next_directory(World))

ClickTimeseries ==
    Commit(collectTimeSeries([World EXCEPT !.gui.timeseries = ~gui.timeseries]))

ClickTimeseriesSlow ==
    Commit(collectTimeSeries(
               [World EXCEPT !.gui.timeseries_slow = ~gui.timeseries_slow]))

ClickSaveBuffer ==
    Commit(collectTimeSeries([World EXCEPT !.gui.save_buffer = ~gui.save_buffer]))

EditNumOfFrames ==
    \E n \in 0..MaxFrames :
        /\ n # gui.numOfFrames
        /\ Commit([World EXCEPT !.gui.numOfFrames = n])

\* a checkbox of the Filenames tab is toggled; its callback is update_filename
Toggled(field) ==
    update_filename([World EXCEPT !.gui[field].checked = ~gui[field].checked])

ToggleImageNum == Commit(Toggled("include_incrementing_image_num"))

ToggleDirNum == Commit(Toggled("include_incrementing_dir_num"))

ToggleDatedSubdir == Commit(Toggled("include_dated_subdir"))

ToggleExtraDirText == Commit(Toggled("include_extra_dir_text"))

ToggleDate == Commit(Toggled("include_current_date"))

ToggleTime == Commit(Toggled("include_current_time"))

ToggleFilenameText == Commit(Toggled("include_filename_text"))

\* the texts typed into the extra directory text field
ExtraDirTexts == {"", "run"}

\* the extra directory text is edited; the callback is update_filename
EditExtraDirText ==
    \E text \in ExtraDirTexts :
        /\ text # gui.include_extra_dir_text.text
        /\ Commit(update_filename([World EXCEPT !.gui.include_extra_dir_text.text = text]))

\* update_filename as the callback of the output format combobox
UpdateFilename == Commit(update_filename(World))

ClickReset == Commit(resetSavingOptions(World))

ChangeCamera == Commit(change_camera(World, "Simulated", TRUE, 0))

\* the directories the file dialog can return
Directories == {"/data"}

SelectDirectory ==
    \E directory \in Directories : Commit(select_directory(World, directory))

\* a click on the checkable Apply Background button toggles it and calls
\* select_background
SelectBackground ==
    \E from_file \in BOOLEAN, opened \in BOOLEAN, haszero \in BOOLEAN :
        Commit(select_background(
                   [World EXCEPT !.gui.applybackground = ~gui.applybackground],
                   from_file, opened, haszero))

Tick == Commit(timerEvent(World))

\* a tick writes at most five files: a slow frame, two of a fast series and
\* two of a buffer dump
TickMayFail == \E k \in 0..5 : Commit(timerEvent(Failing(k)))

TimePasses ==
    /\ now < MaxTime
    /\ now' = now + 1
    /\ obs' = World.obs
    /\ UNCHANGED <<gui, camera, files, driver, workers>>

\* the capture state machine: Live and Freeze, the four save triggers, the
\* frame count, the camera choice, the tick and the clock, on a disk that
\* takes every write
Next ==
    \/ ClickLive
    \/ ClickFreeze
    \/ ClickSave
    \/ ClickTimeseries
    \/ ClickTimeseriesSlow
    \/ ClickSaveBuffer
    \/ EditNumOfFrames
    \/ ChangeCamera
    \/ Tick
    \/ TimePasses

Spec == Init /\ [][Next]_vars

\* Live and Freeze: every handler that checks or unchecks one of the two
\* buttons, with the series that end in one
NextLive ==
    \/ ClickLive
    \/ ClickFreeze
    \/ ClickTimeseries
    \/ ClickSaveBuffer
    \/ ChangeCamera
    \/ SelectDirectory
    \/ SelectBackground
    \/ TickMayFail

SpecLive == Init /\ [][NextLive]_vars

\* single saves: the Save and Increment buttons, the counters' checkboxes, the
\* reset button and the tick, on a disk where a write can fail
NextSave ==
    \/ ClickSaveMayFail
    \/ ClickIncrementDir
    \/ ToggleImageNum
    \/ ToggleDirNum
    \/ ClickReset
    \/ Tick

SpecSave == Init /\ [][NextSave]_vars

\* the filename generator: every checkbox of the Filenames tab, the preview,
\* the directory counter, the reset button and the clock
NextFilename ==
    \/ ToggleImageNum
    \/ ToggleDirNum
    \/ ToggleDatedSubdir
    \/ ToggleExtraDirText
    \/ ToggleDate
    \/ ToggleTime
    \/ ToggleFilenameText
    \/ EditExtraDirText
    \/ UpdateFilename
    \/ ClickIncrementDir
    \/ ClickReset
    \/ TimePasses

SpecFilename == Init /\ [][NextFilename]_vars

\* the counters: single saves and the three series on a disk where a write
\* can fail, with the clock of the slow series
NextCounters ==
    \/ ClickSaveMayFail
    \/ ClickTimeseries
    \/ ClickTimeseriesSlow
    \/ ClickSaveBuffer
    \/ TickMayFail
    \/ TimePasses

SpecCounters == Init /\ [][NextCounters]_vars

\* the directory number: single saves, the image number's checkbox, the three
\* series and the clock, on a disk that takes every write
NextDirs ==
    \/ ClickSave
    \/ ToggleImageNum
    \/ ClickTimeseries
    \/ ClickTimeseriesSlow
    \/ ClickSaveBuffer
    \/ Tick
    \/ TimePasses

SpecDirs == Init /\ [][NextDirs]_vars

\* the frames: capture and display by the tick, Live and Freeze, the
\* background, the camera choice and single saves
NextFrames ==
    \/ ClickLive
    \/ ClickFreeze
    \/ ClickSave
    \/ SelectBackground
    \/ ChangeCamera
    \/ Tick

SpecFrames == Init /\ [][NextFrames]_vars

EditNumOfFrames2 ==
    \E n \in 0..MaxFrames :
        /\ n # gui.numOfFrames2
        /\ Commit([World EXCEPT !.gui.numOfFrames2 = n])

\* a slow series left to itself: the frame count is typed and the series is
\* started while none is running, then only the tick and the clock go on
NextSlow ==
    \/ (~gui.timeseries_slow /\ EditNumOfFrames2)
    \/ (~gui.timeseries_slow /\ ClickTimeseriesSlow)
    \/ Tick
    \/ TimePasses

SpecSlow == Init /\ [][NextSlow]_vars

(***************************************************************************)
(* A fast series that the user starts and never unchecks, with Live and    *)
(* Freeze pressed at any time, and the timer.                              *)
(***************************************************************************)
\* the frame count is typed while no series is in progress
TypeNumOfFrames ==
    \E n \in 1..MaxFrames :
        /\ ~gui.timeseries
        /\ n # gui.numOfFrames
        /\ Commit([World EXCEPT !.gui.numOfFrames = n])

\* the fast-series control is checked, on a disk with room for the series
StartFastSeries == ~gui.timeseries /\ files = {} /\ ClickTimeseries

NextFast ==
    \/ TypeNumOfFrames
    \/ StartFastSeries
    \/ ClickLive
    \/ ClickFreeze
    \/ Tick

SpecFast == Init /\ [][NextFast]_vars

(***************************************************************************)
(* The simulated camera on its own: any caller of its methods.             *)
(***************************************************************************)
CamCommit(c) ==
    /\ c.frame_number <= CamMaxFrameNumber
    /\ camera' = c
    /\ UNCHANGED <<gui, files, now, obs, driver, workers>>

CamGetImage == CamCommit(get_image(camera))

CamStartContinuous == CamCommit(start_continuous_capture(camera, BufSize))

CamStartSequence ==
    \E n \in 0..CamMaxFrames : CamCommit(start_sequence_capture(camera, n))

CamStopLive == CamCommit(stop_live_capture(camera))

NextCamera ==
    \/ CamGetImage
    \/ CamStartContinuous
    \/ CamStartSequence
    \/ CamStopLive

SpecCamera == Init /\ [][NextCamera]_vars

(***************************************************************************)
(* The backend objects on their own: any caller of the constructors, of    *)
(* open() and of close().                                                  *)
(***************************************************************************)
CameraNames == {"Simulated", "PhotonFocus", "Basler", "ThorCam FS"}

BackendConstruct ==
    \E camera_str \in CameraNames :
        Apply([World EXCEPT !.camera = NewCamera(camera_str)])

BackendOpen ==
    \E bit_depth \in BitDepths, camera_str \in CameraNames, r \in OpenResults :
        /\ NewCamera(camera_str).kind = camera.kind
        /\ Apply(camera_open(World, bit_depth, camera_str, r))

BackendClose == Apply(camera_close(World))

NextBackends ==
    \/ BackendConstruct
    \/ BackendOpen
    \/ BackendClose

SpecBackends == Init /\ [][NextBackends]_vars

(***************************************************************************)
(* The choice of the camera: the construction of the window with the       *)
(* drivers that are installed, the user's choice of another camera and the *)
(* end of the application.                                                 *)
(***************************************************************************)
\* the camera list of initUI
Cameras(epix_available, thorcamfs_available) ==
    (IF epix_available THEN <<"PhotonFocus", "Basler">> ELSE << >>)
    \o <<"Simulated">>
    \o (IF thorcamfs_available THEN <<"ThorCam FS">> ELSE << >>)

\* the state when initUI reaches the camera selection loop
InitChoice ==
    \E epix_available, thorcamfs_available \in BOOLEAN :
        /\ gui = [InitGui EXCEPT
                     !.cameras = Cameras(epix_available, thorcamfs_available),
                     !.camera_choice =
                         Head(Cameras(epix_available, thorcamfs_available)),
                     !.phase = "constructing"]
        /\ camera = IF epix_available THEN EpixCamera ELSE DummyCamera
        /\ files = {}
        /\ now = 0
        /\ obs = ObsNone
        /\ driver = NoSessions
        /\ workers = {}

\* the rest of the construction; an exception that leaves the loop leaves
\* captureFrames() and main()
StartupLoop ==
    /\ gui.phase = "constructing"
    /\ \E env \in Environments :
           LET w == camera_loop(World, 1, env)
           IN  Apply(IF w.exc THEN [w EXCEPT !.gui.phase = "aborted"]
                     ELSE [w EXCEPT !.gui.phase = "running",
                                    !.gui.path = filename(w.gui, TRUE, w.now)])

\* the user picks an enabled entry of the camera list
UserChangeCamera ==
    /\ gui.phase = "running"
    /\ \E k \in 1..Len(gui.cameras), fmt \in BOOLEAN, r \in OpenResults :
           /\ gui.cameras[k] # "ThorCam FS"
           /\ Apply(change_camera([World EXCEPT !.gui.camera_choice = gui.cameras[k]],
                                  gui.cameras[k], fmt, r))

CloseWindow ==
    /\ gui.phase = "running"
    /\ Apply([closing_sequence(World) EXCEPT !.gui.phase = "closed"])

NextChoice ==
    \/ StartupLoop
    \/ UserChangeCamera
    \/ (gui.phase = "running" /\ ClickLive)
    \/ (gui.phase = "running" /\ ClickFreeze)
    \/ (gui.phase = "running" /\ camera.kind = "Simulated" /\ Tick)
    \/ CloseWindow

SpecChoice == InitChoice /\ [][NextChoice]_vars

(***************************************************************************)
(* The compression of a series.  inf is the uncompressed container: the    *)
(* frames under the keys '0', '1', ..., inf[k + 1] the one under str(k).   *)
(***************************************************************************)
\* the while loop: the full blocks from number block on, copied in order
RECURSIVE CopyBlocks(_, _, _)
CopyBlocks(inf, chunk, block) ==
    IF (block + 1) * chunk <= Len(inf)
    THEN [i \in 1..chunk |-> inf[block * chunk + (i - 1) + 1]]
         \o CopyBlocks(inf, chunk, block + 1)
    ELSE << >>

\* compress_h5(name, delete) for a name of the form something.uncompressed.h5:
\* the dataset 'images' that is written, whether the call raised and whether
\* the uncompressed container was removed
compress_h5(inf, delete) ==
    LET n_frames == Len(inf)
        chunk == IF n_frames < ChunkFrames THEN n_frames ELSE ChunkFrames
        full == CopyBlocks(inf, chunk, 0)
        block == Len(full) \div chunk
        partial == n_frames - block * chunk
        rest == IF block * chunk < n_frames
                THEN [i \in 1..partial |-> inf[block * chunk + (i - 1) + 1]]
                ELSE << >>
    IN  \* inf['1'] is read for the shape: a KeyError without a key '1'
        IF n_frames < 2
        THEN [exc |-> TRUE, images |-> << >>, removed |-> FALSE]
        ELSE [exc |-> FALSE, images |-> full \o rest, removed |-> delete]

\* the values of the frames of a series
SeriesFrames == {1, 2}

SeriesName == filename(InitGui, FALSE, 0)

\* a series of 1 to MaxSeries frames, written by write_timeseries
InitCompress ==
    /\ gui = InitGui
    /\ camera = DummyCamera
    /\ files = {SeriesName \o ".tif", SeriesName \o ".uncompressed.h5"}
    /\ now = 0
    /\ \E n \in 1..MaxSeries : \E frames \in [1..n -> SeriesFrames] :
           obs = [ObsNone EXCEPT !.stored = frames]
    /\ driver = NoSessions
    /\ workers = {}

\* the worker process started by write_timeseries: compress_h5(name, True)
CompressSeries ==
    /\ SeriesName \o ".uncompressed.h5" \in files
    /\ ~obs.exc
    /\ LET res == compress_h5(obs.stored, TRUE)
       IN  /\ obs' = [obs EXCEPT !.exc = res.exc, !.images = res.images,
                                 !.removed = res.removed]
           /\ files' = IF res.exc THEN files
                       ELSE (files \cup {SeriesName \o ".h5"})
                            \ (IF res.removed
                                THEN {SeriesName \o ".uncompressed.h5"} ELSE {})
    /\ UNCHANGED <<gui, camera, now, driver, workers>>

SpecCompress == InitCompress /\ [][CompressSeries]_vars

(***************************************************************************)
(* The series and their compression processes: fast series and buffer      *)
(* dumps with the directory number on or off, and the processes ending.    *)
(***************************************************************************)
\* a compression process ends: it has written fname.h5 and removed the
\* uncompressed container, or it has raised
WorkerEnds ==
    \E fname \in workers, raised \in BOOLEAN :
        /\ workers' = workers \ {fname}
        /\ files' = IF raised THEN files
                    ELSE (files \cup {fname \o ".h5"})
                         \ {fname \o ".uncompressed.h5"}
        /\ Cardinality(files') <= MaxFiles
        /\ obs' = World.obs
        /\ UNCHANGED <<gui, camera, now, driver>>

NextWorkers ==
    \/ ClickTimeseries
    \/ ClickSaveBuffer
    \/ ToggleDirNum
    \/ Tick
    \/ WorkerEnds

SpecWorkers == Init /\ [][NextWorkers]_vars

(***************************************************************************)
(* The worked example of the filename generator: root "/data", no dated    *)
(* subdirectory, directory number 00, text "image", image number 0000.     *)
(***************************************************************************)
ScenarioGui ==
    [InitGui EXCEPT !.root_save_path = "/data",
                    !.include_dated_subdir.checked = FALSE]

InitScenario ==
    /\ gui = [ScenarioGui EXCEPT !.path = filename(ScenarioGui, TRUE, 0)]
    /\ camera = start_continuous_capture(DummyCamera, BufSize)
    /\ files = {}
    /\ now = 0
    /\ obs = ObsNone
    /\ driver = NoSessions
    /\ workers = {}

ScenarioCommit(w) ==
    /\ textbox_int(w.gui.include_incrementing_image_num) <= MaxSaves
    /\ w.camera.frame_number <= MaxFrameNumber
    /\ Apply(w)

ScenarioSave == \E k \in 0..1 : ScenarioCommit(SaveClicked(k))

ScenarioTick == ScenarioCommit(timerEvent(World))

ScenarioLive ==
    ScenarioCommit(live([World EXCEPT !.gui = GroupSetChecked(gui, "livebutton", TRUE)]))

ScenarioFreeze ==
    ScenarioCommit(live([World EXCEPT !.gui = GroupSetChecked(gui, "freeze", TRUE)]))

NextScenario ==
    \/ ScenarioSave
    \/ ScenarioTick
    \/ ScenarioLive
    \/ ScenarioFreeze

SpecScenario == InitScenario /\ [][NextScenario]_vars

(***************************************************************************)
(* Properties.                                                             *)
(***************************************************************************)
\* C1: no save ever replaces a file that already exists: every write of a
\* single save, a series or a buffer dump goes to a path that was not on disk
C1_NoSilentOverwrite == ~obs.overwrote

\* the save triggers that are checked
ActiveTriggers ==
    {t \in {"save", "timeseries", "timeseries_slow", "save_buffer"} : gui[t]}

\* C2: at most one of the four save triggers (single save, slow series, fast
\* series, buffer dump) is active at any time
C2_AtMostOneTrigger == Cardinality(ActiveTriggers) <= 1

\* C3: exactly one of Live and Freeze is checked, whatever clicks, ticks,
\* series completions, camera changes and dialog pauses have happened
C3_ExactlyOneLiveOrFreeze == gui.livebutton # gui.freeze

\* C3: a tick froze the feed to write a finished fast series and the write
\* raised, so the handler never checked Live again
C3_FrozenByFailedSeries ==
    gui.freeze /\ ~gui.livebutton /\ gui.timeseries /\ obs.exc

\* the buffer index written last after k captures into a buffer of n frames
LastWritten(k, n) == ((k - 1) % n) + 1

\* C4: a buffer dump of a rolling buffer of N frames whose most recently
\* written index is h hands the writer [h+1..N, 1..h]: N indices, oldest first
C4_DumpOrderOldestFirst ==
    (obs.dump_done /\ obs.dump_captured >= 1) =>
        LET N == gui.buffersize
            h == LastWritten(obs.dump_captured, N)
        IN  obs.dump_nums = Range(h + 1, N + 1) \o Range(1, h + 1)

\* C5: a fast series started with a requested count n writes exactly n frames,
\* whatever happened in the gui between the start and the completion
C5_FastSeriesWritesRequested ==
    obs.fast_done => Len(obs.fast_nums) = obs.req

\* the simulated camera is capturing a sequence of a requested length
InSequence == camera.requested # Inf

\* C6: in a sequence of n frames the simulated camera reports the sequence
\* finished exactly when n frames have been captured since the start, never
\* captures more than n, and stays finished until a capture is started again;
\* in continuous capture it never reports a finished sequence
C6_FinishedExactlyAtRequested ==
    /\ [](/\ InSequence =>
                /\ camera.captured <= camera.requested
                /\ finished_live_sequence(camera)
                       <=> camera.captured = camera.requested
          /\ ~InSequence => ~finished_live_sequence(camera))
    /\ [][(finished_live_sequence(camera) /\ ~finished_live_sequence(camera'))
              => camera'.captured = 0 /\ camera'.frame_number = 1]_vars

\* C6: a sequence of three frames has just become finished with its third frame
C6_SequenceFinished ==
    /\ camera.requested = 3
    /\ camera.captured = 3
    /\ camera.lastimage = 3
    /\ finished_live_sequence(camera)

\* the text of the image counter and of the directory counter
ImageNum(g) == textbox_int(g.include_incrementing_image_num)

DirNum(g) == textbox_int(g.include_incrementing_dir_num)

\* C7: a successful single save with the image counter enabled advances the
\* image counter by one and leaves the directory counter as it was
C7_SaveAdvancesImageCounter ==
    [][(obs'.single /\ gui.include_incrementing_image_num.checked)
          => /\ ImageNum(gui') = ImageNum(gui) + 1
             /\ gui'.include_incrementing_dir_num = gui.include_incrementing_dir_num]_vars

\* C7: a save with the image counter enabled has succeeded in directory 01
C7_SavedWithImageCounter ==
    /\ obs.single
    /\ gui.include_incrementing_image_num.checked
    /\ ImageNum(gui) = 2
    /\ DirNum(gui) = 1

\* C8: a successful single save with the image counter disabled and the
\* directory counter enabled advances the directory counter by one and resets
\* the image counter to 0000
C8_SaveAdvancesDirCounter ==
    [][(/\ obs'.single
        /\ ~gui.include_incrementing_image_num.checked
        /\ gui.include_incrementing_dir_num.checked)
          => /\ DirNum(gui') = DirNum(gui) + 1
             /\ gui'.include_incrementing_image_num.text = <<0, 0, 0, 0>>]_vars

\* C8: a save with only the directory counter enabled has succeeded
C8_SavedWithDirCounterOnly ==
    /\ obs.single
    /\ ~gui.include_incrementing_image_num.checked
    /\ gui.include_incrementing_dir_num.checked
    /\ DirNum(gui) = 2
    /\ ImageNum(gui) = 0

\* "/data/00/image%04d.tif" % k, for k below 10
ScenarioPath(k) == "/data/00/image000" \o DigitStr(k) \o ".tif"

\* C9: from root "/data", directory number 00, text "image" and image number
\* 0000, the k-th single save (from 0) writes /data/00/image%04d.tif: the
\* files on disk are those of 0..k-1, none was written twice, the next path is
\* that of k, and after three saves it is /data/00/image0003.tif
C9_ScenarioPaths ==
    LET k == Cardinality(files)
    IN  /\ ~obs.overwrote
        /\ files = {ScenarioPath(j) : j \in 0..(k - 1)}
        /\ filename(gui, FALSE, now) \o ".tif" = ScenarioPath(k)
        /\ k = 3 => filename(gui, FALSE, now) = "/data/00/image0003"

\* C9: the third save of the example has just succeeded
C9_ThreeSaved ==
    /\ obs.single
    /\ files = {"/data/00/image0000.tif", "/data/00/image0001.tif",
                "/data/00/image0002.tif"}
    /\ ImageNum(gui) = 3

\* no field that reads the clock is enabled
NoClockField(g) ==
    /\ ~g.include_current_date.checked
    /\ ~g.include_current_time.checked
    /\ ~g.include_dated_subdir.checked

\* C10: building the path changes nothing the path is built from, and as long
\* as that state does not change the path that is built does not change
C10_PathBuildingIsPure ==
    /\ [][UpdateFilename => FilenameState(gui') = FilenameState(gui)]_vars
    /\ [][FilenameState(gui') = FilenameState(gui)
             => filename(gui', FALSE, now') = filename(gui, FALSE, now)]_vars

\* C10: building the path changes nothing the path is built from, and as long
\* as that state does not change and no field that reads the clock (date,
\* time, dated subdirectory) is enabled the path that is built does not change
C10_PathStableWithoutClock ==
    /\ [][UpdateFilename => FilenameState(gui') = FilenameState(gui)]_vars
    /\ [][(FilenameState(gui') = FilenameState(gui) /\ NoClockField(gui))
             => filename(gui', FALSE, now') = filename(gui, FALSE, now)]_vars

\* C10: the preview was rebuilt after the clock had moved, with no field that
\* reads the clock enabled, and shows the path of the next save
C10_PreviewAfterClockMoved ==
    /\ obs.previewed
    /\ now = 1
    /\ NoClockField(gui)
    /\ gui.path = filename(gui, TRUE, now)

\* the layout root/[dated/][dir number ++ extra text/][date_][time_][text][number]
\* written out field by field
LayoutPath(g, t) ==
    LET dated == IF g.include_dated_subdir.checked THEN "/" \o DateStr(t) ELSE ""
        dirnum == IF g.include_incrementing_dir_num.checked
                  THEN StrOfDigits(g.include_incrementing_dir_num.text) ELSE ""
        extra == IF g.include_extra_dir_text.checked
                 THEN g.include_extra_dir_text.text ELSE ""
        level == IF dirnum \o extra = "" THEN "" ELSE "/" \o dirnum \o extra
        date == IF g.include_current_date.checked THEN DateStr(t) \o "_" ELSE ""
        time == IF g.include_current_time.checked THEN TimeStr(t) ELSE ""
        text == IF g.include_filename_text.checked
                THEN g.include_filename_text.text ELSE ""
        num == IF g.include_incrementing_image_num.checked
               THEN StrOfDigits(g.include_incrementing_image_num.text) ELSE ""
    IN  g.root_save_path \o dated \o level \o "/" \o date \o time \o text \o num

\* C11: for every combination of enabled fields the path is root, the dated
\* subdirectory, the directory number followed by the extra text, and the name
\* date, time, text, image number, in this order; a disabled field adds
\* nothing and a directory level with no text is left out
C11_PathLayout == filename(gui, FALSE, now) = LayoutPath(gui, now)

\* C11: the preview was built with the extra text enabled but empty and the
\* directory number and dated subdirectory disabled: the name follows the root
C11_EmptyLevelOmitted ==
    /\ obs.previewed
    /\ gui.include_extra_dir_text.checked
    /\ gui.include_extra_dir_text.text = ""
    /\ ~gui.include_incrementing_dir_num.checked
    /\ ~gui.include_dated_subdir.checked
    /\ gui.include_current_time.checked
    /\ gui.path = gui.root_save_path \o "\n/" \o TimeStr(now) \o "image0000"

\* this step advanced the image number or the directory number
CounterAdvanced ==
    \/ ImageNum(gui') > ImageNum(gui)
    \/ DirNum(gui') > DirNum(gui)

\* a write of this step's handler succeeded
WriteSucceeded == files' # files \/ obs'.overwrote

\* this step is the press of a series control after a single save
SeriesStartedAfterSingle ==
    gui'.last_save_was_series /\ ~gui.last_save_was_series

\* this step ended a slow series whose image number had reached the frame
\* count by earlier writes, and moved to the next directory
SlowSeriesEnded ==
    /\ obs'.slow_done
    /\ ImageNum(gui) >= gui.numOfFrames2
    /\ DirNum(gui') = DirNum(gui) + 1
    /\ ImageNum(gui') = 0

C13_SaveWritesRawFrame == obs.single => obs.written > NoFrame

\* C14: a press of Save is one-shot: once the press has been handled the Save
\* control is not set, and a press that saved has written the displayed frame
C14_SaveOneShot ==
    /\ ~gui.save
    /\ obs.single => obs.written = gui.image

\* C15: a slow series of N frames left to itself ends with exactly N frames
\* saved by the series, for every N >= 0
C15_SlowSeriesSavesRequested ==
    obs.slow_done => obs.slow_saved = gui.numOfFrames2

\* this step is a tick that found the fast series finished
FastSeriesSeenFinished == obs'.req # Inf

\* C16: the tick that finds the fast series finished writes the series,
\* advances the directory number (when enabled) by exactly one, clears the
\* fast-series trigger, selects Live and restarts continuous capture
C16_FastCompletionInOneTick ==
    [][FastSeriesSeenFinished =>
          /\ obs'.fast_done
          /\ gui.include_incrementing_dir_num.checked
                 => DirNum(gui') = DirNum(gui) + 1
          /\ ~gui'.timeseries
          /\ gui'.livebutton
          /\ camera'.live /\ camera'.stop_frame = Inf /\ camera'.frame_number = 1]_vars

\* this step's handler completed a series
SeriesCompleted == obs'.slow_done \/ obs'.fast_done \/ obs'.dump_done

\* this step's handler saved a single image with the image number disabled
SavedWithoutImageNum ==
    obs'.single /\ ~gui.include_incrementing_image_num.checked

SeriesStarted ==
    \E t \in {"timeseries", "timeseries_slow", "save_buffer"} : ~gui[t] /\ gui'[t]

\* C18: when a series is started and the previous save was not part of a
\* series, the series begins with the image number enabled and at zero
C18_SeriesStartsAtZero ==
    [][(SeriesStarted /\ ~gui.last_save_was_series)
          => /\ gui'.include_incrementing_image_num.checked
             /\ gui'.include_incrementing_image_num.text = <<0, 0, 0, 0>>]_vars

\* C18: a single save was made with the image number disabled, into directory
\* 00, and a slow series has been started after it: the number is enabled again
C18_SeriesStartedAfterUnnumberedSave ==
    /\ gui.timeseries_slow
    /\ gui.last_save_was_series
    /\ obs.slow_saved = 0
    /\ gui.include_incrementing_image_num.checked
    /\ ImageNum(gui) = 0
    /\ files = {save_directory([gui EXCEPT !.include_incrementing_dir_num.text = <<0, 0>>],
                               FALSE, now) \o "/image.tif"}

\* this step is a tick in which the slow series saved a frame
SlowSeriesSavedInTick == obs'.single /\ obs'.slow_saved > obs.slow_saved

\* this step is a tick that evaluated one of the three save triggers
SaveTriggerEvaluated ==
    \/ SlowSeriesSavedInTick
    \/ obs'.slow_done
    \/ obs'.fast_done
    \/ obs'.dump_done

\* C19: a tick that evaluates a save trigger has first read the camera's
\* newest frame, which is a frame and is the one on display; the frame a slow
\* series writes in a tick is the one that tick read, and the frame a press of
\* Save writes is the one the last tick read
C19_SaveWritesNewestReadFrame ==
    [][/\ SaveTriggerEvaluated
          => /\ get_image(camera).lastimage # NoFrame
             /\ gui'.image = get_image(camera).lastimage
       /\ SlowSeriesSavedInTick => obs'.written = get_image(camera).lastimage
       /\ (obs'.single /\ ~SlowSeriesSavedInTick) => obs'.written = gui.image]_vars

\* C19: the tick that ended a slow series wrote the frame it had just read,
\* which is not the first frame the camera captured
C19_SlowSeriesWroteFrameJustRead ==
    /\ obs.slow_done
    /\ obs.single
    /\ obs.written = camera.lastimage
    /\ obs.written = gui.image
    /\ obs.written > 1

\* a stopped camera answers get_image() without capturing: the call leaves
\* lastimage and frame_number as they are, so any number of calls return the
\* same frame
StoppedCameraRepeats == ~camera.live => get_image(camera) = camera

\* the frame get_image() returns now is a frame, not None
GetImageReturnsFrame == get_image(camera).lastimage # NoFrame

\* C20: while the camera is stopped get_image() returns the same frame and
\* the frame number stays, and get_image() never returns an absent frame
C20_StoppedRepeatsAndNeverAbsent ==
    StoppedCameraRepeats /\ GetImageReturnsFrame

\* C21: the datasets a finished fast series stores are the frames of the
\* sequence, one per index, in capture order
C21_FastSeriesStoresCapturedFrames ==
    obs.fast_done => obs.stored = [k \in 1..obs.req |-> k]

\* C22: during a continuous capture the frame number is a position in the
\* rolling buffer and never exceeds the capacity given to
\* start_continuous_capture
C22_FrameNumberWithinBuffer ==
    (camera.live /\ camera.stop_frame = Inf) => get_frame_number(camera) <= BufSize

\* the object holds an open driver session, as its own fields tell
IsOpen(c) ==
    CASE c.kind = "epix" -> c.pixci_opened
      [] c.kind = "thorcam" -> c.handle = "open"
      [] OTHER -> FALSE

\* the driver sessions that were opened through the object and are still open
ObjectSessions ==
    CASE camera.kind = "epix" -> IF driver.pixci THEN 1 ELSE 0
      [] camera.kind = "thorcam" -> camera.sessions
      [] OTHER -> 0

\* the calls of the last operation hold a driver open call, and a driver close
\* call before it
OpenCalled(calls) ==
    \E k \in 1..Len(calls) : calls[k] \in {"pxd_PIXCIopen", "is_InitCamera"}

ClosePrecedesOpen(calls) ==
    \E j, k \in 1..Len(calls) :
        /\ j < k
        /\ calls[j] \in {"pxd_PIXCIclose", "is_ExitCamera"}
        /\ calls[k] \in {"pxd_PIXCIopen", "is_InitCamera"}

\* C23: open() on an object that is already open calls the driver's close
\* before the driver's open, and no object ever holds more than one session
C23_OpenClosesFirst ==
    [][/\ (IsOpen(camera) /\ camera'.kind = camera.kind /\ OpenCalled(obs'.calls))
          => ClosePrecedesOpen(obs'.calls)
       /\ ObjectSessions' <= 1]_vars

\* the calls of the last operation are those of a close(): a driver close
\* call and no driver open call
CloseCalled(calls) ==
    /\ \E k \in 1..Len(calls) : calls[k] \in {"pxd_PIXCIclose", "is_ExitCamera"}
    /\ ~OpenCalled(calls)

\* C24: close() on a camera that holds no open session calls no driver close
\* function
C24_CloseWhenNotOpenCallsNothing ==
    [][ObjectSessions = 0 => ~CloseCalled(obs'.calls)]_vars

\* a camera-open error left the last handler
OpenErrorPropagated ==
    /\ obs.exc
    /\ obs.err \in {"epix_framegrabber.CameraOpenError", "thorcam_fs.CameraOpenError"}

\* C25: in the running application a failed open is handled inside the event
\* handler: no camera-open error leaves a handler
C25_FailedOpenHandled ==
    gui.phase = "running" => ~OpenErrorPropagated

\* C26: the camera selection loop ends with a camera opened and the
\* application running; when no frame grabber camera opened, the camera that
\* is active and selected is the simulated one
C26_StartupOpensACamera ==
    [][gui.phase = "constructing"
          => /\ gui'.phase = "running"
             /\ obs'.opened
             /\ ~driver'.pixci => /\ camera'.kind = "Simulated"
                                  /\ gui'.camera_choice = "Simulated"]_vars

\* the compression of the series has run
Compressed == obs.exc \/ obs.images # << >>

\* C27: the compression of a series of n >= 1 frames writes a dataset of
\* depth n whose k-th slice is the k-th frame, and removes the uncompressed
\* container
C27_CompressionKeepsEveryFrame ==
    Compressed => /\ ~obs.exc
                  /\ obs.images = obs.stored
                  /\ SeriesName \o ".uncompressed.h5" \notin files

\* C28: the main process never opens for writing an uncompressed container
\* that a compression process was handed and has not finished with
C28_WorkerSnapshotUntouched == ~obs.clobbered

DumpTick == Tick /\ gui.save_buffer

\* C31: the tick that finds the time-machine trigger set completes the buffer
\* dump: the series is written, the directory counter is advanced once, the
\* trigger is cleared and Live is restored with start_continuous_capture, so
\* that the trigger is never set at the end of a tick
C31_DumpCompletesInTick ==
    [][DumpTick =>
          /\ obs'.dump_done
          /\ DirNum(gui') = DirNum(gui) + 1
          /\ ~gui'.save_buffer
          /\ gui'.livebutton
          /\ camera' = start_continuous_capture(camera', gui'.buffersize)]_vars

\* a slow series has been started and has not saved a frame yet
SlowSeriesJustStarted == gui.timeseries_slow /\ obs.slow_saved = 0

\* C32: in a slow series a frame saved while the image counter is k is saved
\* no earlier than k intervals after the start timestamp, a tick saves at most
\* one frame, and the first tick after the start saves the first frame
C32_SlowSeriesTiming ==
    /\ [][SlowSeriesSavedInTick
             => ImageNum(gui) * IntervalUnits <= now - gui.slowseries_start]_vars
    /\ [][Tick => Cardinality(files' \ files) <= 1]_vars
    /\ [][(Tick /\ SlowSeriesJustStarted)
             => (SlowSeriesSavedInTick /\ ImageNum(gui) = 0)]_vars

\* C32: the second frame of a slow series (image counter 1) has just been
\* saved, one interval after the start of the series
C32_SecondFrameAfterOneInterval ==
    /\ obs.single
    /\ obs.slow_saved = 2
    /\ now - gui.slowseries_start = IntervalUnits
    /\ Cardinality(files) = 2

\* the camera is capturing a sequence of a requested length: the state from
\* which the ticks reach finished_live_sequence()
SequenceArmed == camera.live /\ camera.stop_frame # Inf

\* C33: a fast series that has been started is completed by the ticks whatever
\* Live and Freeze presses are made in the meantime: as long as its trigger is
\* set no step takes the camera out of the armed sequence, until a tick has
\* found the sequence finished and written the series
C33_FastSeriesStaysArmed ==
    [][(gui.timeseries /\ SequenceArmed)
          => (SequenceArmed' \/ (obs'.fast_done /\ ~gui'.timeseries))]_vars

\* C34: a buffer dump made when fewer frames than the buffer holds have been
\* captured since continuous capture was last started emits only the buffer
\* indices written in that capture
C34_DumpOnlyCapturedFrames ==
    (obs.dump_done /\ obs.dump_captured < gui.buffersize) =>
        \A i \in 1..Len(obs.dump_nums) : obs.dump_nums[i] <= obs.dump_captured

\* the handler before this step completed a series
SeriesJustCompleted == obs.slow_done \/ obs.fast_done \/ obs.dump_done

\* C35: when the next series is started right after a series has completed,
\* with no single Save in between, the press does not advance the directory
\* number again: the completion was the one advance between the two series
C35_OneDirectoryPerSeries ==
    [][(SeriesJustCompleted /\ SeriesStarted) => DirNum(gui') = DirNum(gui)]_vars

\* C36: while a fast series is in progress a click on the slow-series or the
\* time-machine control leaves the camera's sequence and the image number as
\* they are; while a slow series is in progress a click on the fast-series or
\* the time-machine control leaves its start timestamp and the image number
\* as they are
C36_SeriesUndisturbedByOtherControls ==
    /\ [][(gui.timeseries /\ (ClickTimeseriesSlow \/ ClickSaveBuffer))
             => (camera' = camera /\ ImageNum(gui') = ImageNum(gui))]_vars
    /\ [][(gui.timeseries_slow /\ (ClickTimeseries \/ ClickSaveBuffer))
             => (/\ gui'.slowseries_start = gui.slowseries_start
                 /\ ImageNum(gui') = ImageNum(gui))]_vars

\* C37: whenever Freeze is the checked control the camera is not capturing:
\* get_image returns the frame it returned before and the frame number stays,
\* whichever save triggers have been pressed
C37_FrozenCameraDoesNotCapture ==
    gui.freeze =>
        /\ get_image(camera).lastimage = camera.lastimage
        /\ get_frame_number(get_image(camera)) = get_frame_number(camera)

\* C38: whenever Live is the checked control and the fast-series trigger is
\* not set, the camera is in unbounded continuous capture: the next get_image
\* captures a new frame and no stop frame is set
C38_LiveCameraCapturesContinuously ==
    (gui.livebutton /\ ~gui.timeseries) =>
        /\ camera.live
        /\ camera.stop_frame = Inf
        /\ get_image(camera).captured = camera.captured + 1

\* C39: for the frame-grabber camera pixci_opened is false after close() has
\* returned and after an open() that failed, and true after an open() that
\* succeeded
C39_OpenedFlagTracksDevice ==
    [][camera'.kind = "epix" =>
          /\ (CloseCalled(obs'.calls) => ~camera'.pixci_opened)
          /\ (OpenCalled(obs'.calls) => (camera'.pixci_opened <=> ~obs'.exc))]_vars

====
